---- MODULE Spec2Model ----
(***************************************************************************)
(* Image captioning demos: three Streamlit apps (sample images with TTS,   *)
(* sample images, image link) and the folder watcher.  One run of the      *)
(* model is one session of one of the four programs, selected by `app`.    *)
(***************************************************************************)
EXTENDS Integers, Sequences, FiniteSets, TLC

VARIABLES
    app,              \* which program this session runs
    \* ---- folder watcher (Py_processeor.py) ----
    wpc,              \* position of the watcher in its main loop
    watch_dir,        \* names present in watch_folder
    processed_dir,    \* names present in processed_folder
    files,            \* the listing of the current poll
    idx,              \* position of the for loop in files
    rows,             \* image_names / captions / extracted_texts / proc_times, zipped
    csv,              \* contents of csv_path (header and data rows)
    sheet,            \* contents of the worksheet (header and data rows)
    processed_files,  \* the set of names already handled
    stepsDone,        \* steps completed for the file being processed
    attempted,        \* positions of files whose handling ended in this poll
    whyOuter,         \* what sent the loop to the outer handler
    before,           \* the data rows of csv and sheet when the current file was begun
    placed,           \* number of files dropped in the watch folder so far
    \* ---- Streamlit apps ----
    active_image,     \* session_state.active_image (current["image"])
    active_caption,   \* session_state.active_caption (current["caption"])
    active_source,    \* session_state.active_source (current["source"])
    processed,        \* session_state.processed
    url_input,        \* session_state.url_input
    uploaded,         \* what the file uploader holds
    use_camera,       \* the camera checkbox
    camera_img,       \* what the camera widget holds
    rendered,         \* sources whose Generate Caption button the last run rendered
    sections,         \* sections the last run reached
    uncaught,         \* the last run ended in an uncaught exception
    genResult,        \* what the captioning call of the last run did
    last,             \* the last event and the outcomes the environment picked
    runs,             \* number of script runs of the session so far
    \* ---- Py_processor_image_link.py ----
    processed_images, \* session_state.processed_images
    text_input,       \* session_state.text_input, the value of the URL box
    image,            \* the image the last run loaded
    warnings,         \* the warnings the last run showed
    model_loaded      \* load_blip returned a processor and a model

wvars == <<wpc, watch_dir, processed_dir, files, idx, rows, csv, sheet,
           processed_files, stepsDone, attempted, whyOuter, before, placed>>

svars == <<active_image, active_caption, active_source, processed, url_input,
           uploaded, use_camera, camera_img, rendered, sections, uncaught,
           genResult, last, runs>>

lvars == <<processed_images, text_input, image, warnings, model_loaded>>

vars == <<app, wvars, svars, lvars>>

\* ------------------------------------------------------------------ bounds
MaxPlaced == 2
MaxRuns == 5
NumPresets == 2

\* ------------------------------------------------------------ sequences
IsPrefix(s, t) ==
    /\ Len(s) <= Len(t)
    /\ \A i \in 1..Len(s) : s[i] = t[i]

RECURSIVE Orderings(_)
Orderings(S) ==
    IF S = {} THEN {<<>>}
    ELSE UNION {{<<x>> \o o : o \in Orderings(S \ {x})} : x \in S}

\* ======================================================================
\* Folder watcher
\* ======================================================================
FileNames == {<<"a", ".png">>, <<"B", ".JPG">>, <<"n", ".txt">>}

Lower(ext) ==
    CASE ext = ".JPG" -> ".jpg"
      [] ext = ".PNG" -> ".png"
      [] ext = ".JPEG" -> ".jpeg"
      [] OTHER -> ext

IsImageName(f) == Lower(f[2]) \in {".png", ".jpg", ".jpeg"}

Header == <<"Image Name", "Caption", "Extracted Text", "Processing Time">>

\* the row the watcher builds for a file: its name, the caption and the OCR
\* text of its image, and the time its processing took
RowOf(f) == <<f, <<"caption", f>>, <<"text", f>>, <<"time", f>>>>

DataFrame(rs) == <<Header>> \o rs

DataRows(store) == IF store = <<>> THEN <<>> ELSE Tail(store)

FileSteps == {"open", "caption", "ocr", "tts", "move", "append", "notify",
              "csv", "clear", "update", "mark"}

\* a step order with the move after the row append
StepAfterAppendFirst(s) ==
    CASE s = "open" -> "caption"
      [] s = "caption" -> "ocr"
      [] s = "ocr" -> "tts"
      [] s = "tts" -> "append"
      [] s = "append" -> "move"
      [] s = "move" -> "notify"
      [] s = "notify" -> "csv"
      [] s = "csv" -> "clear"
      [] s = "clear" -> "update"
      [] s = "update" -> "mark"
      [] OTHER -> "for"

StepAfter(s) ==
    CASE s = "open" -> "caption"
      [] s = "caption" -> "ocr"
      [] s = "ocr" -> "tts"
      [] s = "tts" -> "move"
      [] s = "move" -> "append"
      [] s = "append" -> "notify"
      [] s = "notify" -> "csv"
      [] s = "csv" -> "clear"
      [] s = "clear" -> "update"
      [] s = "update" -> "mark"
      [] OTHER -> "for"

cur == files[idx]

Advance(s) ==
    /\ wpc' = StepAfter(s)
    /\ stepsDone' = Append(stepsDone, s)

WInit ==
    /\ wpc = "list"
    /\ watch_dir \in SUBSET FileNames
    /\ processed_dir = {}
    /\ files = <<>>
    /\ idx = 1
    /\ rows = <<>>
    /\ csv = <<>>
    /\ sheet = <<>>
    /\ before = <<<<>>, <<>>>>
    /\ processed_files = {}
    /\ stepsDone = <<>>
    /\ attempted = {}
    /\ whyOuter = "none"
    /\ placed = 0

\* line 84: os.listdir and the extension filter
ListDir ==
    /\ app = "Watcher" /\ wpc = "list"
    /\ \E o \in Orderings({f \in watch_dir : IsImageName(f)}) : files' = o
    /\ idx' = 1
    /\ attempted' = {}
    /\ wpc' = "for"
    /\ UNCHANGED <<svars, lvars, app, before, watch_dir, processed_dir, rows, csv, sheet,
                   processed_files, stepsDone, whyOuter, placed>>

\* line 84 raising: to the outer handler
ListDirFails ==
    /\ app = "Watcher" /\ wpc = "list"
    /\ wpc' = "outer"
    /\ whyOuter' = "listdir"
    /\ UNCHANGED <<svars, lvars, app, before, watch_dir, processed_dir, files, idx, rows, csv, sheet,
                   processed_files, stepsDone, attempted, placed>>

\* line 85, exhausted: on to the sleep of line 149
ForDone ==
    /\ app = "Watcher" /\ wpc = "for"
    /\ idx > Len(files)
    /\ wpc' = "sleep2"
    /\ UNCHANGED <<svars, lvars, app, before, watch_dir, processed_dir, files, idx, rows, csv, sheet,
                   processed_files, stepsDone, attempted, whyOuter, placed>>

\* lines 86-87: skip a name already in processed_files
ForSkip ==
    /\ app = "Watcher" /\ wpc = "for"
    /\ idx <= Len(files)
    /\ cur \in processed_files
    /\ attempted' = attempted \cup {idx}
    /\ idx' = idx + 1
    /\ UNCHANGED <<svars, lvars, app, before, wpc, watch_dir, processed_dir, files, rows, csv, sheet,
                   processed_files, stepsDone, whyOuter, placed>>

\* lines 89-92: start on the next file
ForBegin ==
    /\ app = "Watcher" /\ wpc = "for"
    /\ idx <= Len(files)
    /\ cur \notin processed_files
    /\ wpc' = "open"
    /\ stepsDone' = <<>>
    /\ before' = <<DataRows(csv), DataRows(sheet)>>
    /\ UNCHANGED <<svars, lvars, app, watch_dir, processed_dir, files, idx, rows, csv, sheet,
                   processed_files, attempted, whyOuter, placed>>

\* lines 94-112, 128: steps that leave the stores alone
\* (open, caption, OCR, TTS, notification)
PlainStep ==
    /\ app = "Watcher"
    /\ wpc \in {"open", "caption", "ocr", "tts", "notify"}
    /\ Advance(wpc)
    /\ UNCHANGED <<svars, lvars, app, before, watch_dir, processed_dir, files, idx, rows, csv, sheet,
                   processed_files, attempted, whyOuter, placed>>

\* line 118: shutil.move
MoveFile ==
    /\ app = "Watcher" /\ wpc = "move"
    /\ cur \in watch_dir
    /\ watch_dir' = watch_dir \ {cur}
    /\ processed_dir' = processed_dir \cup {cur}
    /\ Advance("move")
    /\ UNCHANGED <<svars, lvars, app, before, files, idx, rows, csv, sheet, processed_files,
                   attempted, whyOuter, placed>>

\* lines 121-125: the five list appends
AppendRow ==
    /\ app = "Watcher" /\ wpc = "append"
    /\ rows' = Append(rows, RowOf(cur))
    /\ Advance("append")
    /\ UNCHANGED <<svars, lvars, app, before, watch_dir, processed_dir, files, idx, csv, sheet,
                   processed_files, attempted, whyOuter, placed>>

\* lines 131-137: the data frame of all rows overwrites the CSV file
WriteCsv ==
    /\ app = "Watcher" /\ wpc = "csv"
    /\ csv' = DataFrame(rows)
    /\ Advance("csv")
    /\ UNCHANGED <<svars, lvars, app, before, watch_dir, processed_dir, files, idx, rows, sheet,
                   processed_files, attempted, whyOuter, placed>>

\* line 140: worksheet.clear()
ClearSheet ==
    /\ app = "Watcher" /\ wpc = "clear"
    /\ sheet' = <<>>
    /\ Advance("clear")
    /\ UNCHANGED <<svars, lvars, app, before, watch_dir, processed_dir, files, idx, rows, csv,
                   processed_files, attempted, whyOuter, placed>>

\* line 141: worksheet.update(header + rows)
UpdateSheet ==
    /\ app = "Watcher" /\ wpc = "update"
    /\ sheet' = DataFrame(rows)
    /\ Advance("update")
    /\ UNCHANGED <<svars, lvars, app, before, watch_dir, processed_dir, files, idx, rows, csv,
                   processed_files, attempted, whyOuter, placed>>

\* line 143: processed_files.add, then the next file
MarkProcessed ==
    /\ app = "Watcher" /\ wpc = "mark"
    /\ processed_files' = processed_files \cup {cur}
    /\ attempted' = attempted \cup {idx}
    /\ idx' = idx + 1
    /\ Advance("mark")
    /\ UNCHANGED <<svars, lvars, app, before, watch_dir, processed_dir, files, rows, csv, sheet,
                   whyOuter, placed>>

\* line 145: any call of the try body raises an Exception (the five list
\* appends and the set add do not)
StepRaises ==
    /\ app = "Watcher"
    /\ wpc \in FileSteps \ {"append", "mark"}
    /\ wpc' = "handler"
    /\ UNCHANGED <<svars, lvars, app, before, watch_dir, processed_dir, files, idx, rows, csv, sheet,
                   processed_files, stepsDone, attempted, whyOuter, placed>>

\* lines 146-147: notify, continue
Handler ==
    /\ app = "Watcher" /\ wpc = "handler"
    /\ attempted' = attempted \cup {idx}
    /\ idx' = idx + 1
    /\ wpc' = "for"
    /\ UNCHANGED <<svars, lvars, app, before, watch_dir, processed_dir, files, rows, csv, sheet,
                   processed_files, stepsDone, whyOuter, placed>>

\* line 146 raising inside the except block: out of the for loop, to line 154
HandlerNotifyRaises ==
    /\ app = "Watcher" /\ wpc = "handler"
    /\ wpc' = "outer"
    /\ whyOuter' = "handler"
    /\ UNCHANGED <<svars, lvars, app, before, watch_dir, processed_dir, files, idx, rows, csv, sheet,
                   processed_files, stepsDone, attempted, placed>>

\* line 149: time.sleep(2), then the next poll
Sleep2 ==
    /\ app = "Watcher" /\ wpc = "sleep2"
    /\ wpc' = "list"
    /\ UNCHANGED <<svars, lvars, app, before, watch_dir, processed_dir, files, idx, rows, csv, sheet,
                   processed_files, stepsDone, attempted, whyOuter, placed>>

\* lines 154-156: notify("Watcher Error"), time.sleep(5), then the next poll
OuterHandler ==
    /\ app = "Watcher" /\ wpc = "outer"
    /\ wpc' = "list"
    /\ whyOuter' = "none"
    /\ UNCHANGED <<svars, lvars, app, before, watch_dir, processed_dir, files, idx, rows, csv, sheet,
                   processed_files, stepsDone, attempted, placed>>

\* line 155 raising inside the outer except block: nothing catches it
OuterNotifyRaises ==
    /\ app = "Watcher" /\ wpc = "outer"
    /\ wpc' = "crashed"
    /\ UNCHANGED <<svars, lvars, app, before, watch_dir, processed_dir, files, idx, rows, csv, sheet,
                   processed_files, stepsDone, attempted, whyOuter, placed>>

\* lines 151-153: KeyboardInterrupt, at any point of the loop
Interrupt ==
    /\ app = "Watcher"
    /\ wpc \notin {"stopped", "crashed"}
    /\ wpc' = "stopped"
    /\ UNCHANGED <<svars, lvars, app, before, watch_dir, processed_dir, files, idx, rows, csv, sheet,
                   processed_files, stepsDone, attempted, whyOuter, placed>>

\* the environment drops a file in the watch folder
PlaceFile ==
    /\ app = "Watcher"
    /\ wpc \notin {"stopped", "crashed"}
    /\ placed < MaxPlaced
    /\ \E f \in FileNames \ watch_dir : watch_dir' = watch_dir \cup {f}
    /\ placed' = placed + 1
    /\ UNCHANGED <<svars, lvars, app, before, wpc, processed_dir, files, idx, rows, csv, sheet,
                   processed_files, stepsDone, attempted, whyOuter>>

WNext ==
    \/ ListDir \/ ListDirFails \/ ForDone \/ ForSkip \/ ForBegin
    \/ PlainStep \/ MoveFile \/ AppendRow \/ WriteCsv \/ ClearSheet
    \/ UpdateSheet \/ MarkProcessed \/ StepRaises \/ Handler
    \/ HandlerNotifyRaises \/ Sleep2 \/ OuterHandler \/ OuterNotifyRaises
    \/ Interrupt \/ PlaceFile

\* ======================================================================
\* Streamlit apps: one action is one script run, triggered by one user event
\* ======================================================================
NoImage == <<"none", 0>>
NoSource == <<"none", 0>>
NoCaption == <<"none", NoImage>>
EmptyCaption == <<"empty", NoImage>>

Presets == 1..NumPresets
PresetSrc(p) == <<"preset", p>>
PresetImg(p) == <<"preset_img", p>>
UploadSrc == <<"upload", 0>>
UploadImg == <<"upload_img", 0>>
UrlSrc == <<"url", 0>>
UrlImg == <<"url_img", 0>>
CameraSrc == <<"camera", 0>>
CameraImg == <<"camera_img", 0>>
LinkButton == <<"link", 0>>
Sources == {PresetSrc(p) : p \in Presets} \cup {UploadSrc, UrlSrc, CameraSrc}

\* the caption the model decodes for an image
CaptionOf(img) == <<"caption", img>>

\* Python truth value of a caption: None and "" are false
Truthy(cap) == cap[1] = "caption"

Entry(img, cap) == [image |-> img, caption |-> cap]

\* what a call of the captioning model can do
GenOutcomes == {"raise", "empty", "ok"}

Decoded(img, g) == IF g = "empty" THEN EmptyCaption ELSE CaptionOf(img)

\* a history that keeps only the newest entry
AppendProcessedReplacing(list, e) == <<e>>

\* list.append on the session history
AppendProcessed(list, e) == Append(list, e)

\* ---- user events --------------------------------------------------------
\* what the user can do given what the last run rendered
Events ==
    {<<"preset", PresetSrc(p)>> : p \in Presets}
    \cup {<<"gen", k>> : k \in rendered}
    \cup (IF "upload" \in sections
          THEN {<<"upload", <<"good", 0>>>>, <<"upload", <<"bad", 0>>>>,
                <<"remove_upload", NoSource>>}
          ELSE {})
    \cup (IF "url" \in sections
          THEN {<<"type_url", <<"u1", 0>>>>, <<"type_url", <<"", 0>>>>,
                <<"load_url", NoSource>>}
          ELSE {})
    \cup (IF "camera" \in sections
          THEN {<<"toggle_camera", NoSource>>}
               \cup (IF use_camera
                     THEN {<<"photo", NoSource>>, <<"clear_photo", NoSource>>}
                     ELSE {})
          ELSE {})

\* widget state after the event, before the script runs
UploadedAfter(ev) ==
    CASE ev[1] = "upload" -> ev[2][1]
      [] ev[1] = "remove_upload" -> "none"
      [] OTHER -> uploaded

UseCameraAfter(ev) == IF ev[1] = "toggle_camera" THEN ~use_camera ELSE use_camera

\* a camera_input that is not rendered loses its photo
CameraImgAfter(ev) ==
    CASE ~UseCameraAfter(ev) -> "none"
      [] ev[1] = "photo" -> "photo"
      [] ev[1] = "clear_photo" -> "none"
      [] OTHER -> camera_img

TypedUrl(ev, old) == IF ev[1] = "type_url" THEN ev[2][1] ELSE old

\* the outcomes the environment picks for a run: the network (for a download)
\* and the captioning model (for a Generate Caption click)
NetChoices(ev) == IF ev[1] \in {"preset", "load_url"} THEN BOOLEAN ELSE {TRUE}
GenChoices(ev) == IF ev[1] = "gen" THEN GenOutcomes ELSE {"na"}

\* what `last` keeps of a run: sample clicks and Generate Caption clicks with
\* the outcome picked for them; other events are not told apart
Recorded(ev, net, g) ==
    IF ev[1] \in {"preset", "gen"}
    THEN <<ev, net, g>>
    ELSE <<<<"other", NoSource>>, TRUE, "na">>

\* ---- the script, section by section -------------------------------------
\* s: the session state and what this run has rendered so far
\*    img, cap, src, proc, url: session_state; btn: Generate Caption buttons
\*    rendered; sec: sections reached; exc: an exception left the script;
\*    gen: what the captioning call of this run did
Start(img, cap, src, proc, url) ==
    [img |-> img, cap |-> cap, src |-> src, proc |-> proc, url |-> url,
     btn |-> {}, sec |-> {}, exc |-> FALSE, gen |-> "none"]

SetActive(s, img, source) == [s EXCEPT !.img = img, !.cap = NoCaption, !.src = source]

Reach(s, name) == [s EXCEPT !.sec = @ \cup {name}]

\* POC lines 143-151 (and 167-175, 197-205, 223-231): generate_caption is
\* called bare, and its result is appended whatever it is
GenerateClickPOC(s, g) ==
    IF g = "raise"
    THEN [s EXCEPT !.exc = TRUE, !.gen = "raise"]
    ELSE [s EXCEPT !.cap = Decoded(s.img, g),
                   !.proc = AppendProcessed(@, Entry(s.img, Decoded(s.img, g))),
                   !.gen = g]

\* Preset lines 119-127 (and 140-148, 168-176, 191-199): safe(generate_caption),
\* appended only when the caption is truthy
GenerateClickPreset(s, g) ==
    IF g = "raise"
    THEN [s EXCEPT !.cap = NoCaption, !.gen = "raise"]
    ELSE IF Truthy(Decoded(s.img, g))
         THEN [s EXCEPT !.cap = Decoded(s.img, g),
                        !.proc = AppendProcessed(@, Entry(s.img, Decoded(s.img, g))),
                        !.gen = g]
         ELSE [s EXCEPT !.cap = Decoded(s.img, g), !.gen = g]

GenerateClick(a, s, g) ==
    IF a = "POC" THEN GenerateClickPOC(s, g) ELSE GenerateClickPreset(s, g)

\* the block under `if active_source == <source>`: the button, and its click
SourceBlock(a, s, source, ev, g) ==
    IF s.exc \/ s.src # source THEN s
    ELSE LET s1 == [s EXCEPT !.btn = @ \cup {source}]
         IN  IF ev = <<"gen", source>> THEN GenerateClick(a, s1, g) ELSE s1

\* one iteration of the loop over PRESETS
PresetIter(a, s, p, ev, net, g) ==
    LET s1 == IF ev = <<"preset", PresetSrc(p)>> /\ net
              THEN SetActive(s, PresetImg(p), PresetSrc(p))
              ELSE s
    IN  SourceBlock(a, s1, PresetSrc(p), ev, g)

RECURSIVE PresetLoop(_, _, _, _, _, _)
PresetLoop(a, s, p, ev, net, g) ==
    IF p > NumPresets \/ s.exc THEN s
    ELSE PresetLoop(a, PresetIter(a, s, p, ev, net, g), p + 1, ev, net, g)

PresetSection(a, s, ev, net, g) == PresetLoop(a, Reach(s, "presets"), 1, ev, net, g)

\* Image.open(uploaded) is called bare: a file that is no image raises
UploadSection(a, s, up, ev, g) ==
    IF s.exc THEN s
    ELSE LET s0 == Reach(s, "upload")
             s1 == CASE up = "good" -> SetActive(s0, UploadImg, UploadSrc)
                     [] up = "bad" -> [s0 EXCEPT !.exc = TRUE]
                     [] OTHER -> s0
         IN  SourceBlock(a, s1, UploadSrc, ev, g)

\* the URL box, the Load button (safe: a failed download is None), the block
UrlSection(a, s, ev, net, g) ==
    IF s.exc THEN s
    ELSE LET s0 == [Reach(s, "url") EXCEPT !.url = TypedUrl(ev, @)]
             s1 == IF ev[1] = "load_url" /\ s0.url # "" /\ net
                   THEN [SetActive(s0, UrlImg, UrlSrc) EXCEPT !.url = ""]
                   ELSE s0
         IN  SourceBlock(a, s1, UrlSrc, ev, g)

CameraSection(a, s, cam, photo, ev, g) ==
    IF s.exc THEN s
    ELSE LET s0 == Reach(s, "camera")
             s1 == IF cam /\ photo = "photo"
                   THEN SetActive(s0, CameraImg, CameraSrc)
                   ELSE s0
         IN  SourceBlock(a, s1, CameraSrc, ev, g)

\* tab1 of the two sample-image apps, top to bottom
Script(a, s, up, cam, photo, ev, net, g) ==
    CameraSection(a,
        UrlSection(a,
            UploadSection(a, PresetSection(a, s, ev, net, g), up, ev, g),
            ev, net, g),
        cam, photo, ev, g)

SInit ==
    /\ active_image = NoImage
    /\ active_caption = NoCaption
    /\ active_source = NoSource
    /\ processed = <<>>
    /\ url_input = ""
    /\ uploaded = "none"
    /\ use_camera = FALSE
    /\ camera_img = "none"
    /\ rendered = {}
    /\ sections = {"presets", "upload", "url", "camera"}
    /\ uncaught = FALSE
    /\ genResult = "none"
    /\ last = <<<<"start", NoSource>>, TRUE, "na">>
    /\ runs = 0

\* one script run of POC_With_TTS_&_Preset_images.py or Preset_image_Website.py
RunSample(a) ==
    /\ app = a
    /\ runs < MaxRuns
    /\ runs' = runs + 1
    /\ \E ev \in Events : \E net \in NetChoices(ev) : \E g \in GenChoices(ev) :
         /\ LET s == Script(a,
                        Start(active_image, active_caption, active_source,
                              processed, url_input),
                        UploadedAfter(ev), UseCameraAfter(ev), CameraImgAfter(ev),
                        ev, net, g)
            IN  /\ active_image' = s.img
                /\ active_caption' = s.cap
                /\ active_source' = s.src
                /\ processed' = s.proc
                /\ url_input' = s.url
                /\ rendered' = s.btn
                /\ sections' = s.sec
                /\ uncaught' = s.exc
                /\ genResult' = s.gen
         /\ uploaded' = UploadedAfter(ev)
         /\ use_camera' = UseCameraAfter(ev)
         /\ camera_img' = CameraImgAfter(ev)
         /\ last' = Recorded(ev, net, g)
    /\ UNCHANGED <<app, wvars, lvars>>

RunPOC == RunSample("POC")

RunPreset == RunSample("Preset")

\* ======================================================================
\* Py_processor_image_link.py: one action is one script run
\* ======================================================================
\* widgets with a key, instantiated by the time line 133 runs (line 97)
KeyedWidgets == {"text_input"}

\* st.session_state.<key> = value: Streamlit raises StreamlitAPIException when
\* the widget with that key was already instantiated in this run
AssignRaises(key) == key \in KeyedWidgets

\* lines 102-112: uploaded file, else camera photo, else URL; any failure is
\* caught and leaves image = None
LoadImage(up, photo, url, net) ==
    CASE up = "good" -> UploadImg
      [] up = "bad" -> NoImage
      [] photo = "photo" -> CameraImg
      [] url # "" /\ net -> UrlImg
      [] OTHER -> NoImage

LoadWarning(up, photo, url, net) ==
    \/ up = "bad"
    \/ up = "none" /\ photo = "none" /\ url # "" /\ ~net

LinkEvents ==
    {<<"upload", <<"good", 0>>>>, <<"upload", <<"bad", 0>>>>,
     <<"remove_upload", NoSource>>,
     <<"type_url", <<"u1", 0>>>>, <<"type_url", <<"", 0>>>>,
     <<"toggle_camera", NoSource>>}
    \cup (IF use_camera
          THEN {<<"photo", NoSource>>, <<"clear_photo", NoSource>>}
          ELSE {})
    \cup {<<"gen", k>> : k \in rendered}

\* the network is asked on every run that takes its image from the URL
LinkNetChoices(ev) ==
    IF /\ UploadedAfter(ev) = "none"
       /\ CameraImgAfter(ev) = "none"
       /\ TypedUrl(ev, text_input) # ""
    THEN BOOLEAN
    ELSE {TRUE}

\* lines 117-138: the Generate Caption click.  r: the history, the URL value,
\* the warnings shown, and what the captioning call did
LinkStart == [proc |-> processed_images, url |-> "", warn |-> {}, gen |-> "none"]

LinkGenerate(r, img, g) ==
    IF ~model_loaded
    THEN [r EXCEPT !.warn = @ \cup {"model"}]
    ELSE IF g = "raise"
    THEN [r EXCEPT !.warn = @ \cup {"caption"}, !.gen = "raise"]
    ELSE LET r1 == [r EXCEPT !.proc = AppendProcessed(@, Entry(img, Decoded(img, g))),
                             !.gen = g]
         IN  IF AssignRaises("text_input")
             THEN [r1 EXCEPT !.warn = @ \cup {"caption"}]
             ELSE [r1 EXCEPT !.url = ""]

LinkScript(ev, net, g) ==
    LET url == TypedUrl(ev, text_input)
        img == LoadImage(UploadedAfter(ev), CameraImgAfter(ev), url, net)
        r0  == [LinkStart EXCEPT
                   !.url = url,
                   !.warn = IF LoadWarning(UploadedAfter(ev), CameraImgAfter(ev), url, net)
                            THEN {"load"} ELSE {}]
    IN  IF img # NoImage /\ ev = <<"gen", LinkButton>> THEN LinkGenerate(r0, img, g) ELSE r0

RunLink ==
    /\ app = "Link"
    /\ runs < MaxRuns
    /\ runs' = runs + 1
    /\ \E ev \in LinkEvents : \E net \in LinkNetChoices(ev) : \E g \in GenChoices(ev) :
         /\ LET r == LinkScript(ev, net, g)
            IN  /\ processed_images' = r.proc
                /\ text_input' = r.url
                /\ warnings' = r.warn
                /\ genResult' = r.gen
         /\ image' = LoadImage(UploadedAfter(ev), CameraImgAfter(ev),
                               TypedUrl(ev, text_input), net)
         /\ rendered' = IF image' # NoImage THEN {LinkButton} ELSE {}
         /\ uploaded' = UploadedAfter(ev)
         /\ use_camera' = UseCameraAfter(ev)
         /\ camera_img' = CameraImgAfter(ev)
         /\ last' = Recorded(ev, net, g)
    /\ UNCHANGED <<app, wvars, active_image, active_caption, active_source,
                   processed, url_input, sections, uncaught, model_loaded>>

LInit ==
    /\ processed_images = <<>>
    /\ text_input = ""
    /\ image = NoImage
    /\ warnings = {}
    /\ model_loaded \in BOOLEAN

ANext == RunPOC \/ RunPreset \/ RunLink

\* no watcher in this session: its state stays as constructed
WIdle == WInit /\ watch_dir = {}

InitWatcher == app = "Watcher" /\ WInit /\ SInit /\ LInit /\ model_loaded

InitApps ==
    \/ app \in {"POC", "Preset"} /\ WIdle /\ SInit /\ LInit /\ model_loaded
    \/ app = "Link" /\ WIdle /\ SInit /\ LInit

Init == InitWatcher \/ InitApps

Next == WNext \/ ANext

Spec == Init /\ [][Next]_vars

\* a session of the folder watcher
SpecWatcher == InitWatcher /\ [][WNext]_vars

\* a session of one of the Streamlit apps
SpecApps == InitApps /\ [][ANext]_vars
\* ======================================================================
\* Properties
\* ======================================================================
Images == {PresetImg(p) : p \in Presets} \cup {UploadImg, UrlImg, CameraImg}

\* the session history of the running app
History == IF app = "Link" THEN processed_images ELSE processed

\* C1: in every Streamlit app the session history starts empty and every
\* script run, whatever the event and however it ends, leaves the old list
\* as a prefix of the new one.
C1_AppendOnly ==
    /\ processed = <<>> /\ processed_images = <<>>
    /\ [][/\ IsPrefix(processed, processed')
          /\ IsPrefix(processed_images, processed_images')]_vars

\* C1 witness: two entries were appended and a later run of another event
\* left them in place.
C1_Witness ==
    /\ Len(History) = 2
    /\ History[1] # History[2]
    /\ last[1][1] = "other"

\* C2: between files, the CSV file and the spreadsheet each still hold, in
\* order, every data row they held when the last file was begun.
C2_StoresAppendOnly ==
    wpc = "for" =>
        /\ IsPrefix(before[1], DataRows(csv))
        /\ IsPrefix(before[2], DataRows(sheet))

\* C3: whenever the watcher is between files or sleeping between polls, the
\* data rows of the spreadsheet are the data rows of the CSV file.
C3_SheetMirrorsCsv ==
    wpc \in {"for", "sleep2"} => DataRows(sheet) = DataRows(csv)

\* C4: no script run of any app ends in an uncaught exception.
C4_ErrorsSwallowed == ~uncaught

\* C5: the watcher ends only by a keyboard interrupt, and a poll is abandoned
\* (the outer handler entered) only by a failed listing, never by the
\* processing of a file.
C5_WatcherContinues ==
    /\ wpc # "crashed"
    /\ wpc = "outer" => whyOuter = "listdir"

Before(a, b) ==
    \A j \in 1..Len(stepsDone) :
        stepsDone[j] = b => \E i \in 1..(j - 1) : stepsDone[i] = a

C7_OneGenerateButton ==
    app \in {"POC", "Preset"} => rendered \subseteq {active_source}

\* C8: a run whose captioning call yields a caption appends exactly one entry,
\* the captioned image with its caption; every other run, one whose call
\* raises or returns nothing included, leaves the history unchanged.
C8_ResultsSaved ==
    [][IF genResult' = "ok"
       THEN \E k \in Images : History' = Append(History, Entry(k, CaptionOf(k)))
       ELSE History' = History]_vars

\* C9: in the sample-image apps, when a sample click whose download succeeded
\* is followed by a click on the Generate Caption button of that sample, and
\* the model yields a caption, the caption of the session becomes the caption
\* of that sample image and the pair is recorded.
C9_SampleCaptioned ==
    [][\A p \in Presets :
          (/\ app \in {"POC", "Preset"}
           /\ last = <<<<"preset", PresetSrc(p)>>, TRUE, "na">>
           /\ last' = <<<<"gen", PresetSrc(p)>>, TRUE, "ok">>)
          => /\ active_caption' = CaptionOf(PresetImg(p))
             /\ processed' = Append(processed,
                                    Entry(PresetImg(p), CaptionOf(PresetImg(p))))]_vars

\* C10: in the image link app, after a Generate Caption click that produced a
\* caption the URL value is empty and no 'Captioning failed' warning is shown.
C10_UrlCleared ==
    (app = "Link" /\ genResult = "ok") =>
        /\ text_input = ""
        /\ "caption" \notin warnings

\* ----------------------------------------------------------------------
\* The watcher left to run: no call raises, no keyboard interrupt
\* ----------------------------------------------------------------------
\* a step of the poll loop itself (lines 82-149)
LoopStep ==
    \/ ListDir \/ ForDone \/ ForSkip \/ ForBegin
    \/ PlainStep \/ MoveFile \/ AppendRow \/ WriteCsv \/ ClearSheet
    \/ UpdateSheet \/ MarkProcessed \/ Sleep2

\* the loop, and the user dropping files in the watch folder
WNextRunning == LoopStep \/ PlaceFile

\* the process keeps running: the loop always takes its next step; the user
\* is under no obligation to place files
SpecWatcherFair == InitWatcher /\ [][WNextRunning]_vars /\ WF_vars(LoopStep)

ImageNames == {f \in FileNames : IsImageName(f)}

\* C11: while the watcher runs and no step raises, every image file in the
\* watch folder, whenever it was placed and whatever its name, is eventually
\* moved to the processed folder and recorded as a row.
C11_EveryFileProcessed ==
    \A f \in ImageNames :
        (f \in watch_dir) ~>
            (/\ f \notin watch_dir
             /\ f \in processed_dir
             /\ \E i \in 1..Len(rows) : rows[i] = RowOf(f))
====
